---- MODULE Spec2Model ----
(***************************************************************************)
(* State-machine model of the self-supervision-exploration repository:     *)
(*   - the SimCLR / Detectron2 notebook   (src/unnamed/part_000)           *)
(*   - the MoCo CIFAR-10 notebook         (src/workspace/notebooks/...)    *)
(*   - the docker-compose service         (src/docker-compose.yaml)        *)
(* A behaviour is one run of one of the three programs, chosen in Init by  *)
(* the variable nb.  A notebook run executes its code cells top to bottom; *)
(* an exception raised by a cell ends the run (pc = "failed").             *)
(***************************************************************************)
EXTENDS Integers, Sequences, FiniteSets, TLC

(***************************************************************************)
(* Bounds of the model.                                                    *)
(***************************************************************************)
\* SimCLR notebook: max_epochs (5 in the notebook), the number of images under
\* data_path and batch_size (128 in the notebook)
max_epochs_simclr == 2
dataset_len_simclr == 5
batch_size_simclr == 2

\* len(dataloader) of a torch DataLoader over n samples
dataloader_len(n, bs, drop_last) ==
    IF drop_last THEN n \div bs ELSE (n + bs - 1) \div bs

\* whether the iterator of a torch DataLoader yields another batch after i batches
dataloader_has_next(n, bs, drop_last, i) ==
    IF drop_last THEN (i + 1) * bs <= n ELSE i * bs < n

\* len(dataloader_train_simclr): the dataloader is built with drop_last=True
len_dataloader_train_simclr == dataloader_len(dataset_len_simclr, batch_size_simclr, TRUE)

\* MoCo notebook: max_epochs (10 in the notebook, used by both trainers), the
\* lengths of the three dataloaders, batch_size (256) and memory_bank_size (1024)
max_epochs_moco == 2
len_dataloader_train_moco == 2
len_dataloader_train_classifier == 1
len_dataloader_test == 2
batch_size == 2
memory_bank_size == 4

\* compose service: how often the container's command polls for its file
MaxPolls == 3

\* The unit of the fixed-point grid on which network weights are represented.
Unit == 100 * 100

\* lr * gradient of one optimizer step, as drawn by the environment
Grads == {Unit, -Unit}

\* loss.detach().cpu().item() of a batch, in hundredths (the precision of the print)
Losses == {100, 250}

VARIABLES
    nb,           \* the program that is run: "simclr", "moco" or "compose"
    pc,           \* the cell / loop position the run is at, "done" or "failed"
    log,          \* the kinds of step the run has performed, in order
    raised,       \* the position at which an exception was raised ("" if none)
    \* ---- SimCLR notebook
    e,            \* epoch index of the training loop
    it,           \* batches already processed in epoch e
    resnet,       \* weights of the Detectron2 ResNet (the object shared by
                  \* detmodel.backbone.bottom_up and simclr_backbone[0])
    projection_head,   \* weights of the SimCLR projection head
    weights_dir,  \* the checkpoint files written to /workspace/weights
    mean_loss,    \* the accumulator mean_loss of the training loop, in hundredths
    printed,      \* the "[Epoch e] Mean Loss = ..." lines printed: [epoch, mean_loss]
    losses,       \* the loss of every batch processed so far: [epoch, loss]
    detmodel,     \* the Detectron2 model: the module its backbone.bottom_up refers to
    simclr_backbone,   \* the modules of the Sequential simclr_backbone, in order
    optimizer_steps,   \* the optimizer.step() calls made on simclr_backbone's parameters
    \* ---- MoCo notebook: the modules
    param,        \* module name -> its weights (one fixed-point number each)
    requires_grad,          \* module name -> requires_grad of its parameters
    grad,         \* module name -> .grad of its parameters
    num_batches_tracked,    \* BatchNorm buffer of the two backbones
    training,     \* train (TRUE) / eval (FALSE) mode of the two backbones
    optimizer,    \* the modules whose parameters the current optimizer holds
    bank,         \* NTXentLoss memory bank: sequence of embeddings, <<>> before
                  \* its lazy initialisation; an embedding is the number of the
                  \* training step that produced it, 0 for a random vector
    bank_ptr,     \* write position of the memory bank (0-based)
    \* ---- MoCo notebook: the trainer
    current_epoch, batch_idx, global_step,
    \* ---- MoCo notebook: what the latest training_step computed with
    pre,          \* param as it was when the latest training_step was entered
    q_with,       \* <<backbone, head>> weights the query forward pass used
    k_with,       \* <<backbone, head>> weights the key forward pass used
    negatives,    \* the negatives the memory bank supplied to the latest loss
    \* ---- MoCo notebook: the classifier
    validation_step_outputs,   \* Classifier.validation_step_outputs
    val_acc,      \* the value last logged as "val_acc": <<correct, num>>, <<>> if none
    sanity_checking,           \* trainer.sanity_checking
    val_batch,    \* validation batches done in the running validation loop
    pretrained,   \* the backbone's state when MoCo pre-training ended (<<>> before)
    since,        \* <<correct, num>> summed over the validation_step calls made
                  \* since the previous on_validation_epoch_end
    last_epoch,   \* the value of since when on_validation_epoch_end last ran
    classifier_backbone,   \* the module classifier.backbone refers to ("" before)
    features_from,         \* the module the latest Classifier.forward took its
                           \* features from ("" if it has not run)
    \* ---- compose service
    container,    \* "absent", "running" or "exited"
    exit_cause,   \* why the container exited: "" (it has not), "command", "stopped"
    published_ports,   \* the ports the running service publishes
    tail,         \* what the container's command is doing: "", "waiting", "following"
    file_exists,  \* whether the file the command names exists in /workspace
    polls         \* the times the command has looked for its file

ctlVars == <<nb, pc, log, raised>>
simclrVars == <<e, it, resnet, projection_head, weights_dir, mean_loss, printed, losses,
                detmodel, simclr_backbone, optimizer_steps>>
moduleVars == <<param, requires_grad, grad, num_batches_tracked, training, optimizer>>
bankVars == <<bank, bank_ptr>>
trainerVars == <<current_epoch, batch_idx, global_step>>
stepVars == <<pre, q_with, k_with, negatives>>
clsVars == <<validation_step_outputs, val_acc, sanity_checking, val_batch,
             pretrained, since, last_epoch, classifier_backbone, features_from>>
mocoVars == <<moduleVars, bankVars, trainerVars, stepVars, clsVars>>
composeVars == <<container, exit_cause, published_ports, tail, file_exists, polls>>
vars == <<ctlVars, simclrVars, mocoVars, composeVars>>

Programs == {"simclr", "moco", "compose"}

(***************************************************************************)
(* The exception caught where it is raised and the step tried again.       *)
(***************************************************************************)
Raise_retry(at) ==
    /\ pc' = pc
    /\ raised' = at
    /\ UNCHANGED <<nb, log>>

(***************************************************************************)
(* Running a cell that raises: the exception is not caught anywhere in the *)
(* notebooks, so the run stops at that cell.                               *)
(***************************************************************************)
Raise(at) ==
    /\ pc' = "failed"
    /\ raised' = at
    /\ UNCHANGED <<nb, log>>

Goto(next, kinds) ==
    /\ pc' = next
    /\ log' = log \o kinds
    /\ UNCHANGED <<nb, raised>>

(***************************************************************************)
(* SimCLR notebook                                                         *)
(***************************************************************************)
\* the data cell moved before the projection head cell
SimclrNextCell_data_first(c) ==
    CASE c = "simclr_build_model" -> "simclr_data"
      [] c = "simclr_data" -> "simclr_projection_head"
      [] c = "simclr_projection_head" -> "simclr_optimizer"
      [] c = "simclr_optimizer" -> "simclr_checkpoint"
      [] c = "simclr_checkpoint" -> "done"

\* the checkpoint cell run before the training cell
SimclrNextCell_checkpoint_first(c) ==
    CASE c = "simclr_build_model" -> "simclr_projection_head"
      [] c = "simclr_projection_head" -> "simclr_data"
      [] c = "simclr_data" -> "simclr_checkpoint"
      [] c = "simclr_checkpoint" -> "simclr_optimizer"
      [] c = "simclr_optimizer" -> "done"

\* the order of the code cells
SimclrNextCell(c) ==
    CASE c = "simclr_build_model" -> "simclr_projection_head"
      [] c = "simclr_projection_head" -> "simclr_data"
      [] c = "simclr_data" -> "simclr_optimizer"
      [] c = "simclr_optimizer" -> "simclr_checkpoint"
      [] c = "simclr_checkpoint" -> "done"

\* the loop left after its first epoch
SimclrLoopOver_first_epoch(ep) == ep >= 1

\* for e in range(max_epochs): whether the loop is over once ep epochs have run
SimclrLoopOver(ep) == ep >= max_epochs_simclr

\* the modules of the model build_model(cfg) returns (Base-RCNN-FPN), by the names
\* its state dict gives them
detmodel_modules == {"backbone.bottom_up", "backbone.fpn", "proposal_generator", "roi_heads"}

\* the weights of a module: of all the modules only the ResNet's are represented
weights_of(module, w) == IF module = "ResNet" THEN w ELSE 0

\* what DetectionCheckpointer(detmodel).save writes: the state of detmodel's modules
checkpoint_of(det, w, ep) ==
    [bottom_up |-> weights_of(det.bottom_up, w), epochs |-> ep, modules |-> detmodel_modules]

\* detmodel = modeling.build_model(cfg); simclr_backbone = Sequential(bottom_up, ...)
SimclrBuildModel ==
    /\ nb = "simclr" /\ pc = "simclr_build_model"
    /\ \E w \in {0, Unit} : resnet' = w
    /\ detmodel' = [bottom_up |-> "ResNet"]
    /\ simclr_backbone' = <<detmodel'.bottom_up, "SelectStage", "AdaptiveAvgPool2d">>
    /\ UNCHANGED optimizer_steps
    /\ Goto(SimclrNextCell(pc), <<"model">>)
    /\ UNCHANGED <<e, it, projection_head, weights_dir, mean_loss, printed, losses>>
    /\ UNCHANGED <<mocoVars, composeVars>>

\* projection_head = SimCLRProjectionHead(...)
SimclrProjectionHead ==
    /\ nb = "simclr" /\ pc = "simclr_projection_head"
    /\ projection_head' = 0
    /\ Goto(SimclrNextCell(pc), <<"model">>)
    /\ UNCHANGED <<e, it, resnet, weights_dir, mean_loss, printed, losses,
                   detmodel, simclr_backbone, optimizer_steps>>
    /\ UNCHANGED <<mocoVars, composeVars>>

\* transform, dataset_train_simclr, dataloader_train_simclr
SimclrData ==
    /\ nb = "simclr" /\ pc = "simclr_data"
    /\ Goto(SimclrNextCell(pc), <<"dataset", "dataloader">>)
    /\ UNCHANGED simclrVars
    /\ UNCHANGED <<mocoVars, composeVars>>

\* LightlyDataset(input_dir=data_path) raises when the directory is missing
SimclrDataFails ==
    /\ nb = "simclr" /\ pc = "simclr_data"
    /\ Raise("simclr_data")
    /\ UNCHANGED simclrVars
    /\ UNCHANGED <<mocoVars, composeVars>>

\* mean_loss is carried over from the epoch before
mean_loss_start_carried(ep, mean) == mean

\* mean_loss = 0.0 at the top of the body of the epoch loop
mean_loss_start(ep, mean) == IF SimclrLoopOver(ep) THEN mean ELSE 0

\* mean_loss += loss.detach().cpu().item() / len(dataloader_train_simclr)
mean_loss_add(mean, loss, n) == mean + loss \div n

\* criterion = NTXentLoss(); optimizer = Adam(backbone + head parameters);
\* the for loop over epochs is entered with e = 0
SimclrOptimizer ==
    /\ nb = "simclr" /\ pc = "simclr_optimizer"
    /\ e' = 0 /\ it' = 0
    /\ mean_loss' = mean_loss_start(0, mean_loss)
    /\ UNCHANGED <<printed, losses, detmodel, simclr_backbone, optimizer_steps>>
    /\ Goto(IF SimclrLoopOver(0) THEN SimclrNextCell(pc) ELSE "simclr_loop",
            <<"optimizer", "train_loop">>)
    /\ UNCHANGED <<resnet, projection_head, weights_dir>>
    /\ UNCHANGED <<mocoVars, composeVars>>

\* one iteration of the inner loop: forward, loss, backward, optimizer.step(),
\* optimizer.zero_grad(), mean_loss update
SimclrBatch ==
    /\ nb = "simclr" /\ pc = "simclr_loop"
    /\ dataloader_has_next(dataset_len_simclr, batch_size_simclr, TRUE, it)
    /\ \E g \in Grads, h \in {Unit} :
          /\ resnet' = resnet - weights_of(simclr_backbone[1], g)
          /\ projection_head' = projection_head - h
    /\ optimizer_steps' = optimizer_steps + 1
    /\ \E loss \in Losses :
          /\ mean_loss' = mean_loss_add(mean_loss, loss, len_dataloader_train_simclr)
          /\ losses' = Append(losses, [epoch |-> e, loss |-> loss])
    /\ it' = it + 1
    /\ UNCHANGED <<ctlVars, e, weights_dir, printed, detmodel, simclr_backbone>>
    /\ UNCHANGED <<mocoVars, composeVars>>

\* a step of the iteration raises (CUDA error, shape mismatch, ...)
SimclrBatchFails ==
    /\ nb = "simclr" /\ pc = "simclr_loop"
    /\ dataloader_has_next(dataset_len_simclr, batch_size_simclr, TRUE, it)
    /\ Raise("simclr_loop")
    /\ UNCHANGED simclrVars
    /\ UNCHANGED <<mocoVars, composeVars>>

\* the dataloader is exhausted: print the mean loss, next epoch or leave the loop
SimclrEpochEnd ==
    /\ nb = "simclr" /\ pc = "simclr_loop"
    /\ ~dataloader_has_next(dataset_len_simclr, batch_size_simclr, TRUE, it)
    /\ printed' = Append(printed, [epoch |-> e, mean_loss |-> mean_loss])
    /\ e' = e + 1 /\ it' = 0
    /\ mean_loss' = mean_loss_start(e + 1, mean_loss)
    /\ UNCHANGED <<losses, detmodel, simclr_backbone, optimizer_steps>>
    /\ Goto(IF SimclrLoopOver(e + 1) THEN SimclrNextCell("simclr_optimizer")
                                  ELSE "simclr_loop", <<>>)
    /\ UNCHANGED <<resnet, projection_head, weights_dir>>
    /\ UNCHANGED <<mocoVars, composeVars>>

\* detmodel.backbone.bottom_up = simclr_backbone[0]; checkpointer.save(...)
SimclrCheckpoint ==
    /\ nb = "simclr" /\ pc = "simclr_checkpoint"
    /\ detmodel' = [detmodel EXCEPT !.bottom_up = simclr_backbone[1]]
    /\ weights_dir' = Append(weights_dir, checkpoint_of(detmodel', resnet, e))
    /\ Goto(SimclrNextCell(pc), <<"checkpoint">>)
    /\ UNCHANGED <<e, it, resnet, projection_head, mean_loss, printed, losses,
                   simclr_backbone, optimizer_steps>>
    /\ UNCHANGED <<mocoVars, composeVars>>

\* checkpointer.save raises (save_dir not writable): nothing is written
SimclrCheckpointFails ==
    /\ nb = "simclr" /\ pc = "simclr_checkpoint"
    /\ Raise("simclr_checkpoint")
    /\ UNCHANGED simclrVars
    /\ UNCHANGED <<mocoVars, composeVars>>

SimclrNext ==
    \/ SimclrBuildModel \/ SimclrProjectionHead
    \/ SimclrData \/ SimclrDataFails
    \/ SimclrOptimizer
    \/ SimclrBatch \/ SimclrBatchFails \/ SimclrEpochEnd
    \/ SimclrCheckpoint \/ SimclrCheckpointFails

(***************************************************************************)
(* MoCo notebook: the library calls the cells make                         *)
(***************************************************************************)
\* a .grad field: <<>> is None, <<g>> a gradient (already scaled by the learning rate)
NoGrad == <<>>
ParamNames == {"backbone", "projection_head", "backbone_momentum",
               "projection_head_momentum", "fc"}
BatchNormModules == {"backbone", "backbone_momentum"}

\* the two models taken for each other
update_momentum_swapped(model, model_ema, m) ==
    (model * m + model_ema * (100 - m)) \div 100

\* update_momentum(model, model_ema, m): model_ema = model_ema * m + model * (1 - m),
\* m in hundredths, rounded to the fixed-point grid
update_momentum(model, model_ema, m) ==
    (model_ema * m + model * (100 - m)) \div 100

\* the momentum the training step passes: 0.99
momentum == 99

\* requires_grad left as it is
deactivate_requires_grad_noop(rg, module) == rg

\* deactivate_requires_grad(module)
deactivate_requires_grad(rg, module) == [rg EXCEPT ![module] = FALSE]

\* a forward pass through a backbone: BatchNorm counts the batch in train mode
bn_forward(nbt, trn, module) ==
    IF trn[module] THEN [nbt EXCEPT ![module] = @ + 1] ELSE nbt

\* MemoryBankModule._init_memory_bank: random vectors
init_memory_bank(size) == [i \in 1..size |-> 0]

\* MemoryBankModule._dequeue_and_enqueue(batch)
dequeue_and_enqueue(bk, ptr, batch) ==
    IF ptr + Len(batch) >= Len(bk)
    THEN [bank |-> [i \in 1..Len(bk) |-> IF i > ptr THEN batch[i - ptr] ELSE bk[i]],
          ptr |-> 0]
    ELSE [bank |-> [i \in 1..Len(bk) |->
                      IF i > ptr /\ i <= ptr + Len(batch) THEN batch[i - ptr] ELSE bk[i]],
          ptr |-> ptr + Len(batch)]

\* the bank cloned after it has been updated
memory_bank_forward_update_first(bk, ptr, output, update) ==
    LET b0 == IF Len(bk) = 0 THEN init_memory_bank(memory_bank_size) ELSE bk
        upd == IF update THEN dequeue_and_enqueue(b0, ptr, output)
                         ELSE [bank |-> b0, ptr |-> ptr]
    IN  [negatives |-> upd.bank, bank |-> upd.bank, ptr |-> upd.ptr]

\* MemoryBankModule.forward(output, update), as NTXentLoss.forward calls it on the
\* keys: the negatives are a clone of the bank taken before the bank is updated
memory_bank_forward(bk, ptr, output, update) ==
    LET b0 == IF Len(bk) = 0 THEN init_memory_bank(memory_bank_size) ELSE bk
        upd == IF update THEN dequeue_and_enqueue(b0, ptr, output)
                         ELSE [bank |-> b0, ptr |-> ptr]
    IN  [negatives |-> b0, bank |-> upd.bank, ptr |-> upd.ptr]

\* loss.backward(): the modules the loss was computed from get a gradient if their
\* parameters require one; the other .grad fields stay as they are
backward(grd, rg, used, g) ==
    [n \in ParamNames |-> IF rg[n] /\ n \in used THEN <<g>> ELSE grd[n]]

\* optimizer.step() of torch.optim.SGD: parameters whose .grad is None are skipped
sgd_step(prm, grd, group) ==
    [n \in ParamNames |-> IF n \in group /\ grd[n] # NoGrad THEN prm[n] - grd[n][1]
                                                           ELSE prm[n]]

\* the modules MocoModel.training_step computes its loss from
MocoLossModules == {"backbone", "projection_head", "backbone_momentum",
                    "projection_head_momentum"}

(***************************************************************************)
(* MoCo notebook: the cells                                                *)
(***************************************************************************)
\* the order of the code cells
MocoNextCell(c) ==
    CASE c = "moco_datasets" -> "moco_dataloaders"
      [] c = "moco_dataloaders" -> "moco_class_MocoModel"
      [] c = "moco_class_MocoModel" -> "moco_class_Classifier"
      [] c = "moco_class_Classifier" -> "moco_train"
      [] c = "moco_train" -> "moco_classifier"
      [] c = "moco_classifier" -> "done"

\* dataset_train_moco, dataset_train_classifier, dataset_test
MocoDatasets ==
    /\ nb = "moco" /\ pc = "moco_datasets"
    /\ Goto(MocoNextCell(pc), <<"dataset">>)
    /\ UNCHANGED <<composeVars, simclrVars, mocoVars>>

\* LightlyDataset(input_dir=path_to_train) raises when the directory is missing
MocoDatasetsFails ==
    /\ nb = "moco" /\ pc = "moco_datasets"
    /\ Raise(pc)
    /\ UNCHANGED <<composeVars, simclrVars, mocoVars>>

\* dataloader_train_moco, dataloader_train_classifier, dataloader_test
MocoDataloaders ==
    /\ nb = "moco" /\ pc = "moco_dataloaders"
    /\ Goto(MocoNextCell(pc), <<"dataloader">>)
    /\ UNCHANGED <<composeVars, simclrVars, mocoVars>>

\* class MocoModel(pl.LightningModule), class Classifier(pl.LightningModule)
MocoClassDef ==
    /\ nb = "moco" /\ pc \in {"moco_class_MocoModel", "moco_class_Classifier"}
    /\ Goto(MocoNextCell(pc), <<"model">>)
    /\ UNCHANGED <<composeVars, simclrVars, mocoVars>>

\* MocoModel.__init__
MocoModel_init(p0, h0) ==
    /\ param' = [n \in ParamNames |->
                   CASE n \in {"backbone", "backbone_momentum"} -> p0
                     [] n \in {"projection_head", "projection_head_momentum"} -> h0
                     [] OTHER -> 0]
    /\ requires_grad' =
         deactivate_requires_grad(
            deactivate_requires_grad([n \in ParamNames |-> TRUE], "backbone_momentum"),
            "projection_head_momentum")
    /\ grad' = [n \in ParamNames |-> NoGrad]
    /\ num_batches_tracked' = [m \in BatchNormModules |-> 0]
    /\ training' = [m \in BatchNormModules |-> TRUE]
    /\ bank' = <<>> /\ bank_ptr' = 0

\* MocoModel.configure_optimizers: SGD over self.parameters()
MocoModel_configure_optimizers ==
    {"backbone", "projection_head", "backbone_momentum", "projection_head_momentum"}

\* where trainer.fit goes after a batch / an epoch
MocoAfterBatch(i) ==
    IF i < len_dataloader_train_moco THEN "moco_training_step" ELSE "moco_epoch_end"

\* model = MocoModel(); trainer = pl.Trainer(...); trainer.fit(...) up to the first
\* batch: the optimizers are configured and the module is put in train mode
MocoFitStart ==
    /\ nb = "moco" /\ pc = "moco_train"
    /\ \E p0 \in {Unit} : MocoModel_init(p0, -Unit)
    /\ optimizer' = MocoModel_configure_optimizers
    /\ current_epoch' = 0 /\ batch_idx' = 0 /\ global_step' = 0
    /\ Goto(IF max_epochs_moco = 0 THEN MocoNextCell(pc) ELSE MocoAfterBatch(0),
            <<"model_instance", "optimizer", "train_trainer">>)
    /\ UNCHANGED <<composeVars, simclrVars, stepVars, clsVars>>

\* MocoModel.training_step
MocoTrainingStep ==
    /\ nb = "moco" /\ pc = "moco_training_step"
    /\ LET p1 == [param EXCEPT
                    !["backbone_momentum"] =
                        update_momentum(param["backbone"], @, momentum),
                    !["projection_head_momentum"] =
                        update_momentum(param["projection_head"], @, momentum)]
           k  == [j \in 1..batch_size |-> global_step + 1]
           mb == memory_bank_forward(bank, bank_ptr, k,
                    requires_grad["backbone"] \/ requires_grad["projection_head"])
       IN  /\ pre' = param
           /\ param' = p1
           /\ q_with' = <<p1["backbone"], p1["projection_head"]>>
           /\ k_with' = <<p1["backbone_momentum"], p1["projection_head_momentum"]>>
           /\ num_batches_tracked' =
                 bn_forward(bn_forward(num_batches_tracked, training, "backbone"),
                            training, "backbone_momentum")
           /\ negatives' = mb.negatives
           /\ bank' = mb.bank /\ bank_ptr' = mb.ptr
    /\ Goto("moco_backward", <<>>)
    /\ UNCHANGED <<composeVars, simclrVars, requires_grad, grad, training, optimizer, trainerVars,
                   clsVars>>

\* MocoModel.training_step raises in a forward pass (after the momentum update)
MocoTrainingStepFails ==
    /\ nb = "moco" /\ pc = "moco_training_step"
    /\ pre' = param
    /\ param' = [param EXCEPT
                    !["backbone_momentum"] =
                        update_momentum(param["backbone"], @, momentum),
                    !["projection_head_momentum"] =
                        update_momentum(param["projection_head"], @, momentum)]
    /\ Raise(pc)
    /\ UNCHANGED <<composeVars, simclrVars, requires_grad, grad, num_batches_tracked, training,
                   optimizer, bankVars, trainerVars, q_with, k_with, negatives, clsVars>>

\* the trainer's optimizer closure: zero_grad, loss.backward()
MocoBackward ==
    /\ nb = "moco" /\ pc = "moco_backward"
    /\ \E g \in Grads : grad' = backward(grad, requires_grad, MocoLossModules, g)
    /\ Goto("moco_optimizer_step", <<>>)
    /\ UNCHANGED <<composeVars, simclrVars, param, requires_grad, num_batches_tracked, training,
                   optimizer, bankVars, trainerVars, stepVars, clsVars>>

\* optimizer.step(), then the next batch
MocoOptimizerStep ==
    /\ nb = "moco" /\ pc = "moco_optimizer_step"
    /\ param' = sgd_step(param, grad, optimizer)
    /\ batch_idx' = batch_idx + 1
    /\ global_step' = global_step + 1
    /\ Goto(MocoAfterBatch(batch_idx + 1), <<>>)
    /\ UNCHANGED <<composeVars, simclrVars, requires_grad, grad, num_batches_tracked, training,
                   optimizer, bankVars, current_epoch, stepVars, clsVars>>

\* loss.backward() or optimizer.step() raises
MocoLoopFails ==
    /\ nb = "moco" /\ pc \in {"moco_backward", "moco_optimizer_step"}
    /\ Raise(pc)
    /\ UNCHANGED <<composeVars, simclrVars, mocoVars>>

\* MocoModel.on_train_epoch_end (histograms of the weights are logged), the
\* scheduler steps, and the next epoch starts or fit returns
MocoEpochEnd ==
    /\ nb = "moco" /\ pc = "moco_epoch_end"
    /\ current_epoch' = current_epoch + 1
    /\ batch_idx' = 0
    /\ Goto(IF current_epoch + 1 = max_epochs_moco THEN MocoNextCell("moco_train")
                                                   ELSE MocoAfterBatch(0), <<>>)
    /\ UNCHANGED <<composeVars, simclrVars, moduleVars, bankVars, global_step, stepVars, clsVars>>

MocoNext ==
    \/ MocoDatasets \/ MocoDatasetsFails \/ MocoDataloaders \/ MocoClassDef
    \/ MocoFitStart
    \/ MocoTrainingStep \/ MocoTrainingStepFails
    \/ MocoBackward \/ MocoOptimizerStep \/ MocoLoopFails
    \/ MocoEpochEnd

(***************************************************************************)
(* MoCo notebook: the linear classifier                                    *)
(***************************************************************************)
RECURSIVE SumOf(_, _)
\* the sum of component k of the pairs of a sequence
SumOf(outs, k) == IF outs = <<>> THEN 0 ELSE Head(outs)[k] + SumOf(Tail(outs), k)

\* the pair returned but not appended
validation_step_no_append(outputs, num, correct) == outputs

\* Classifier.validation_step: the (num, correct) pair it appends and returns
validation_step(outputs, num, correct) == Append(outputs, <<num, correct>>)

\* the list not cleared
on_validation_epoch_end_no_clear(outputs, logged) ==
    IF outputs # <<>>
    THEN [val_acc |-> <<SumOf(outputs, 2), SumOf(outputs, 1)>>, outputs |-> outputs]
    ELSE [val_acc |-> logged, outputs |-> outputs]

\* Classifier.on_validation_epoch_end: the accuracy it logs and the list it leaves
on_validation_epoch_end(outputs, logged) ==
    IF outputs # <<>>
    THEN [val_acc |-> <<SumOf(outputs, 2), SumOf(outputs, 1)>>, outputs |-> <<>>]
    ELSE [val_acc |-> logged, outputs |-> outputs]

\* Classifier.configure_optimizers: SGD over self.fc.parameters()
Classifier_configure_optimizers == {"fc"}

\* the momentum backbone handed to the classifier
Classifier_backbone_arg_momentum == "backbone_momentum"

\* classifier = Classifier(model.backbone): the module passed as backbone
Classifier_backbone_arg == "backbone"

\* the modules Classifier.forward computes from
ClsLossModules == {classifier_backbone, "fc"}

\* module.train() / module.eval() on the classifier: its backbone follows
set_mode(trn, modules, mode) ==
    [m \in BatchNormModules |-> IF m \in modules THEN mode ELSE trn[m]]

\* the batches of one validation loop: num_sanity_val_steps (2) while sanity checking
ValLimit ==
    IF sanity_checking /\ len_dataloader_test > 2 THEN 2 ELSE len_dataloader_test

\* the sizes a test batch can have: dataloader_test keeps a short last batch
ValBatchSizes(i) ==
    IF i + 1 < len_dataloader_test THEN {batch_size} ELSE 1..batch_size

ClsAfterBatch(i) ==
    IF i < len_dataloader_train_classifier THEN "cls_training_step"
                                           ELSE "cls_validation_start"

\* model.eval(); classifier = Classifier(model.backbone); trainer = pl.Trainer(...);
\* trainer.fit(...) up to the sanity-check validation loop
ClsFitStart ==
    /\ nb = "moco" /\ pc = "moco_classifier"
    /\ pretrained' = <<param["backbone"], num_batches_tracked["backbone"]>>
    /\ training' = set_mode(training, BatchNormModules, FALSE)
    /\ classifier_backbone' = Classifier_backbone_arg
    /\ requires_grad' = deactivate_requires_grad(requires_grad, classifier_backbone')
    /\ \E f0 \in {0} : param' = [param EXCEPT !["fc"] = f0]
    /\ validation_step_outputs' = <<>>
    /\ optimizer' = Classifier_configure_optimizers
    /\ sanity_checking' = TRUE
    /\ val_batch' = 0
    /\ current_epoch' = 0 /\ batch_idx' = 0 /\ global_step' = 0
    /\ Goto(IF max_epochs_moco = 0 THEN MocoNextCell(pc) ELSE "cls_validation_step",
            <<"model_instance", "optimizer", "train_trainer">>)
    /\ UNCHANGED <<composeVars, simclrVars, grad, num_batches_tracked, bankVars, stepVars,
                   val_acc, since, last_epoch, features_from>>

\* Classifier.validation_step on one test batch
ClsValidationStep ==
    /\ nb = "moco" /\ pc = "cls_validation_step" /\ val_batch < ValLimit
    /\ \E num \in ValBatchSizes(val_batch) : \E correct \in {0, num} :
          /\ validation_step_outputs' =
                validation_step(validation_step_outputs, num, correct)
          /\ since' = <<since[1] + correct, since[2] + num>>
    /\ num_batches_tracked' = bn_forward(num_batches_tracked, training, classifier_backbone)
    /\ features_from' = classifier_backbone
    /\ val_batch' = val_batch + 1
    /\ UNCHANGED <<ctlVars, composeVars, simclrVars, param, requires_grad, grad, training, optimizer,
                   bankVars, trainerVars, stepVars, val_acc, sanity_checking,
                   pretrained, last_epoch, classifier_backbone>>

\* the validation loop ends: Classifier.on_validation_epoch_end, the module is put
\* back in train mode; then the first epoch starts (after the sanity check), or
\* Classifier.on_train_epoch_end runs and the next epoch starts or fit returns
ClsValidationEpochEnd ==
    /\ nb = "moco" /\ pc = "cls_validation_step" /\ val_batch = ValLimit
    /\ LET r == on_validation_epoch_end(validation_step_outputs, val_acc)
       IN  /\ val_acc' = r.val_acc
           /\ validation_step_outputs' = r.outputs
    /\ last_epoch' = since
    /\ since' = <<0, 0>>
    /\ training' = set_mode(training, {classifier_backbone}, TRUE)
    /\ sanity_checking' = FALSE
    /\ batch_idx' = 0
    /\ current_epoch' = IF sanity_checking THEN current_epoch ELSE current_epoch + 1
    /\ Goto(IF sanity_checking THEN ClsAfterBatch(0)
            ELSE IF current_epoch + 1 = max_epochs_moco THEN MocoNextCell("moco_classifier")
            ELSE ClsAfterBatch(0), <<>>)
    /\ UNCHANGED <<composeVars, simclrVars, param, requires_grad, grad, num_batches_tracked,
                   optimizer, bankVars, global_step, stepVars, val_batch, pretrained,
                   classifier_backbone, features_from>>

\* Classifier.training_step: forward through the backbone and fc, cross entropy
ClsTrainingStep ==
    /\ nb = "moco" /\ pc = "cls_training_step"
    /\ num_batches_tracked' = bn_forward(num_batches_tracked, training, classifier_backbone)
    /\ features_from' = classifier_backbone
    /\ Goto("cls_backward", <<>>)
    /\ UNCHANGED <<composeVars, simclrVars, param, requires_grad, grad, training, optimizer,
                   bankVars, trainerVars, stepVars, validation_step_outputs, val_acc,
                   sanity_checking, val_batch, pretrained, since, last_epoch,
                   classifier_backbone>>

\* the trainer's optimizer closure: zero_grad, loss.backward()
ClsBackward ==
    /\ nb = "moco" /\ pc = "cls_backward"
    /\ \E g \in {Unit} : grad' = backward(grad, requires_grad, ClsLossModules, g)
    /\ Goto("cls_optimizer_step", <<>>)
    /\ UNCHANGED <<composeVars, simclrVars, param, requires_grad, num_batches_tracked, training,
                   optimizer, bankVars, trainerVars, stepVars, clsVars>>

\* optimizer.step(), then the next batch or the validation loop
ClsOptimizerStep ==
    /\ nb = "moco" /\ pc = "cls_optimizer_step"
    /\ param' = sgd_step(param, grad, optimizer)
    /\ batch_idx' = batch_idx + 1
    /\ global_step' = global_step + 1
    /\ Goto(ClsAfterBatch(batch_idx + 1), <<>>)
    /\ UNCHANGED <<composeVars, simclrVars, requires_grad, grad, num_batches_tracked, training,
                   optimizer, bankVars, current_epoch, stepVars, clsVars>>

\* the validation loop of an epoch starts: the module is put in eval mode
ClsValidationStart ==
    /\ nb = "moco" /\ pc = "cls_validation_start"
    /\ training' = set_mode(training, {classifier_backbone}, FALSE)
    /\ val_batch' = 0
    /\ Goto("cls_validation_step", <<>>)
    /\ UNCHANGED <<composeVars, simclrVars, param, requires_grad, grad, num_batches_tracked,
                   optimizer, bankVars, trainerVars, stepVars, validation_step_outputs,
                   val_acc, sanity_checking, pretrained, since, last_epoch,
                   classifier_backbone, features_from>>

\* a hook, loss.backward() or optimizer.step() raises
ClsLoopFails ==
    /\ nb = "moco"
    /\ \/ pc \in {"cls_training_step", "cls_backward", "cls_optimizer_step"}
       \/ pc = "cls_validation_step" /\ val_batch < ValLimit
    /\ Raise(pc)
    /\ UNCHANGED <<composeVars, simclrVars, mocoVars>>

ClsNext ==
    \/ ClsFitStart
    \/ ClsValidationStep \/ ClsValidationEpochEnd
    \/ ClsTrainingStep \/ ClsBackward \/ ClsOptimizerStep
    \/ ClsValidationStart
    \/ ClsLoopFails

(***************************************************************************)
(* The compose service                                                     *)
(***************************************************************************)
\* tail -f anything: no retry
command_tail_f ==
    [program |-> "tail", follow |-> "descriptor", retry |-> FALSE, file |-> "anything"]

\* services.main.command: tail -F anything  (-F is --follow=name --retry)
command == [program |-> "tail", follow |-> "name", retry |-> TRUE, file |-> "anything"]

\* services.main has no ports key
ports == {}

\* one look of tail at its file: what tail does next, "exit" when it terminates
tail_poll(cmd, exists) ==
    IF exists
    THEN IF cmd.follow = "none" THEN "exit" ELSE "following"
    ELSE IF cmd.retry THEN "waiting" ELSE "exit"

\* docker compose up: the container of service main starts its command
ComposeUp ==
    /\ nb = "compose" /\ pc = "compose_up"
    /\ container' = "running"
    /\ published_ports' = ports
    /\ tail' = "waiting"
    /\ Goto("compose_running", <<"up">>)
    /\ UNCHANGED <<simclrVars, mocoVars, exit_cause, file_exists, polls>>

\* the command looks for its file again; the container exits when the command does
ComposePoll ==
    /\ nb = "compose" /\ pc = "compose_running" /\ polls < MaxPolls
    /\ polls' = polls + 1
    /\ LET t == tail_poll(command, file_exists)
       IN  IF t = "exit"
           THEN /\ tail' = "" /\ container' = "exited" /\ exit_cause' = "command"
                /\ published_ports' = {}
                /\ Goto("done", <<"exit">>)
           ELSE /\ tail' = t
                /\ UNCHANGED <<ctlVars, container, exit_cause, published_ports>>
    /\ UNCHANGED <<simclrVars, mocoVars, file_exists>>

\* somebody creates or removes /workspace/anything (the workspace is a bind mount)
ComposeWorkspaceFile ==
    /\ nb = "compose" /\ pc = "compose_running"
    /\ file_exists' = ~file_exists
    /\ UNCHANGED <<ctlVars, simclrVars, mocoVars, container, exit_cause,
                   published_ports, tail, polls>>

\* docker compose stop / down, from outside the container
ComposeStop ==
    /\ nb = "compose" /\ pc = "compose_running"
    /\ container' = "exited" /\ exit_cause' = "stopped"
    /\ tail' = "" /\ published_ports' = {}
    /\ Goto("done", <<"stop">>)
    /\ UNCHANGED <<simclrVars, mocoVars, file_exists, polls>>

ComposeNext == ComposeUp \/ ComposePoll \/ ComposeWorkspaceFile \/ ComposeStop

(***************************************************************************)
(* Specification                                                           *)
(***************************************************************************)
Init ==
    /\ nb \in Programs
    /\ pc = CASE nb = "simclr" -> "simclr_build_model"
              [] nb = "moco" -> "moco_datasets"
              [] nb = "compose" -> "compose_up"
    /\ log = <<>>
    /\ raised = ""
    /\ e = 0 /\ it = 0
    /\ resnet = 0 /\ projection_head = 0
    /\ weights_dir = <<>>
    /\ mean_loss = 0 /\ printed = <<>> /\ losses = <<>>
    /\ detmodel = [bottom_up |-> ""] /\ simclr_backbone = <<>>
    /\ optimizer_steps = 0
    /\ param = [n \in ParamNames |-> 0]
    /\ requires_grad = [n \in ParamNames |-> TRUE]
    /\ grad = [n \in ParamNames |-> NoGrad]
    /\ num_batches_tracked = [m \in BatchNormModules |-> 0]
    /\ training = [m \in BatchNormModules |-> TRUE]
    /\ optimizer = {}
    /\ bank = <<>> /\ bank_ptr = 0
    /\ current_epoch = 0 /\ batch_idx = 0 /\ global_step = 0
    /\ pre = [n \in ParamNames |-> 0]
    /\ q_with = <<>> /\ k_with = <<>> /\ negatives = <<>>
    /\ validation_step_outputs = <<>>
    /\ val_acc = <<>>
    /\ sanity_checking = FALSE
    /\ val_batch = 0
    /\ pretrained = <<>>
    /\ since = <<0, 0>>
    /\ last_epoch = <<>>
    /\ classifier_backbone = "" /\ features_from = ""
    /\ container = "absent" /\ exit_cause = ""
    /\ published_ports = {}
    /\ tail = ""
    /\ file_exists \in IF nb = "compose" THEN BOOLEAN ELSE {FALSE}
    /\ polls = 0

Next == SimclrNext \/ MocoNext \/ ClsNext \/ ComposeNext

Spec == Init /\ [][Next]_vars

(***************************************************************************)
(* Properties                                                              *)
(***************************************************************************)
IsPrefix(s, t) == Len(s) <= Len(t) /\ \A i \in 1..Len(s) : s[i] = t[i]
Range(s) == {s[i] : i \in DOMAIN s}

\* C1: in a run of the SimCLR notebook the checkpoint is written at most once,
\* exactly once in a run that reaches its end, and only when the training loop
\* has run all max_epochs epochs: nothing is written before or during training.
C1_CheckpointOnceAfterTraining ==
    nb = "simclr" =>
        /\ Len(weights_dir) <= 1
        /\ pc \in {"simclr_build_model", "simclr_projection_head", "simclr_data",
                   "simclr_optimizer", "simclr_loop", "simclr_checkpoint"}
              => weights_dir = <<>>
        /\ weights_dir # <<>> =>
              /\ weights_dir[1].epochs = max_epochs_simclr
              /\ e = max_epochs_simclr /\ it = 0
        /\ pc = "done" => Len(weights_dir) = 1

C1_Witness ==
    nb = "simclr" /\ pc = "done" /\ Len(weights_dir) = 1 /\ e = max_epochs_simclr

\* C2 as the spec states it: each notebook goes dataset, dataloader, model
\* definition, optimizer/scheduler, training loop delegated to a framework
\* trainer, checkpoint save, in that order, and a finished run has saved one.
SpecRank(kind) ==
    CASE kind = "dataset" -> 1
      [] kind = "dataloader" -> 2
      [] kind \in {"model", "model_instance"} -> 3
      [] kind = "optimizer" -> 4
      [] kind \in {"train_trainer", "train_loop"} -> 5
      [] kind = "checkpoint" -> 6

SimclrSteps ==
    <<"model", "model", "dataset", "dataloader", "optimizer", "train_loop", "checkpoint">>
MocoSteps ==
    <<"dataset", "dataloader", "model", "model",
      "model_instance", "optimizer", "train_trainer",
      "model_instance", "optimizer", "train_trainer">>

TrainingPositions ==
    {"simclr_loop", "moco_training_step", "moco_backward", "moco_optimizer_step",
     "cls_training_step", "cls_backward", "cls_optimizer_step", "cls_validation_step"}

C3_FailureEndsRun ==
    /\ [](raised # "" => pc = "failed")
    /\ [](pc = "failed" /\ raised = "simclr_loop" => weights_dir = <<>>)
    /\ [][pc = "failed" =>
            /\ pc' = "failed"
            /\ UNCHANGED <<e, it, resnet, weights_dir, param, grad, bank,
                           current_epoch, batch_idx, global_step, val_batch, log>>]_vars

C3_Witness ==
    /\ pc = "failed" /\ raised \in TrainingPositions
    /\ \/ nb = "simclr" /\ it >= 1
       \/ nb = "moco" /\ global_step >= 1

\* C4 as the spec states it: no hook override keeps state between calls (so
\* none can take a path that depends on state left by an earlier hook call).
C4_NoHookState ==
    nb = "moco" => validation_step_outputs = <<>>

\* C4, amended: Classifier.validation_step keeps state between calls, the list
\* validation_step_outputs, which holds one entry per validation_step call of
\* the running validation loop; Classifier.on_validation_epoch_end branches on
\* that list, found non-empty at the end of every validation loop, and empties
\* it, so the list is empty whenever no validation loop is running.
C4_HookState ==
    nb = "moco" =>
        /\ pc = "cls_validation_step" => Len(validation_step_outputs) = val_batch
        /\ pc \notin {"cls_validation_step", "failed"} => validation_step_outputs = <<>>
        /\ last_epoch # <<>> => last_epoch[2] > 0

C4_Witness ==
    nb = "moco" /\ pc = "cls_validation_step" /\ ~sanity_checking
                /\ Len(validation_step_outputs) = 2

\* C5: at construction the momentum backbone and head equal the online ones;
\* every training step moves each momentum parameter to 0.99 of its old value
\* plus 0.01 of the online parameter (to the precision of the grid), the online
\* parameters are not touched by the step, and the key forward pass runs on the
\* moved momentum parameters, the query forward pass on the online ones.
MovedTo(new, old, online) ==
    /\ 100 * new <= 99 * old + online
    /\ 99 * old + online < 100 * new + 100

C5_MomentumEncoder ==
    nb = "moco" =>
        /\ pc = "moco_training_step" /\ global_step = 0 =>
              /\ param["backbone_momentum"] = param["backbone"]
              /\ param["projection_head_momentum"] = param["projection_head"]
        /\ pc \in {"moco_backward", "moco_optimizer_step"} =>
              /\ MovedTo(param["backbone_momentum"], pre["backbone_momentum"],
                         pre["backbone"])
              /\ MovedTo(param["projection_head_momentum"],
                         pre["projection_head_momentum"], pre["projection_head"])
              /\ param["backbone"] = pre["backbone"]
              /\ param["projection_head"] = pre["projection_head"]
              /\ k_with = <<param["backbone_momentum"], param["projection_head_momentum"]>>
              /\ q_with = <<param["backbone"], param["projection_head"]>>

C5_Witness ==
    /\ nb = "moco" /\ pc = "moco_backward"
    /\ pre["backbone"] # pre["backbone_momentum"]
    /\ param["backbone_momentum"] # pre["backbone_momentum"]
    /\ k_with[1] = param["backbone_momentum"]

\* C6 as the spec states it: across the MoCo training steps nothing but the
\* momentum update changes the momentum backbone and the momentum head: their
\* parameters change only by the momentum update, and nothing else of them
\* changes at all.
MomentumState ==
    <<param["backbone_momentum"], param["projection_head_momentum"],
      num_batches_tracked["backbone_momentum"]>>

InMocoFit ==
    nb = "moco" /\ pc \in {"moco_training_step", "moco_backward",
                           "moco_optimizer_step", "moco_epoch_end"}

C6_OnlyMomentumUpdate ==
    [][InMocoFit =>
         \/ MomentumState' = MomentumState
         \/ /\ pc = "moco_training_step"
            /\ param'["backbone_momentum"] =
                  update_momentum(param["backbone"], param["backbone_momentum"], momentum)
            /\ param'["projection_head_momentum"] =
                  update_momentum(param["projection_head"],
                                  param["projection_head_momentum"], momentum)
            /\ num_batches_tracked'["backbone_momentum"] =
                  num_batches_tracked["backbone_momentum"]]_vars

\* C6, amended: across the MoCo training steps the parameters of the momentum
\* backbone and of the momentum head are changed only by the momentum update
\* of training_step: they never get a gradient, and the optimizer step, whose
\* optimizer holds them, leaves them as they are.  (The BatchNorm buffers of the
\* momentum backbone are also changed by the key forward pass.)
MomentumParams == <<param["backbone_momentum"], param["projection_head_momentum"]>>

C6_OptimizerKeepsMomentum ==
    /\ [](nb = "moco" => /\ grad["backbone_momentum"] = NoGrad
                         /\ grad["projection_head_momentum"] = NoGrad)
    /\ [][InMocoFit /\ pc # "moco_training_step" => MomentumParams' = MomentumParams]_vars
    /\ [][InMocoFit /\ pc = "moco_training_step" =>
            /\ MovedTo(param'["backbone_momentum"], param["backbone_momentum"],
                       param["backbone"])
            /\ MovedTo(param'["projection_head_momentum"],
                       param["projection_head_momentum"], param["projection_head"])]_vars

C6_Witness ==
    /\ nb = "moco" /\ pc \in {"moco_training_step", "moco_epoch_end"}
    /\ global_step >= 1
    /\ {"backbone_momentum", "projection_head_momentum"} \subseteq optimizer
    /\ param["backbone"] # pre["backbone"]
    /\ MomentumParams = <<k_with[1], k_with[2]>>

\* C7: the container of the compose service runs a command that never ends by
\* itself: while the container is up its command is waiting for or following
\* its file, the container exits only by being stopped from outside, and the
\* service publishes no port.
C7_IdleContainer ==
    nb = "compose" =>
        /\ published_ports = {}
        /\ container = "running" => tail \in {"waiting", "following"}
        /\ container = "exited" => exit_cause = "stopped"
        /\ container # "exited" => exit_cause = ""

C7_Witness ==
    /\ nb = "compose" /\ container = "running" /\ polls >= 2
    /\ tail = "waiting" /\ ~file_exists

\* the number of the training step whose loss was computed last
LossStep == global_step + 1
AfterLoss == nb = "moco" /\ pc \in {"moco_backward", "moco_optimizer_step"}

\* C8 as the spec states it: the bank never holds more than memory_bank_size
\* embeddings and the negatives it supplies to the loss of a step are key
\* embeddings of earlier steps only.
C8_NegativesArePastKeys ==
    /\ Len(bank) <= memory_bank_size
    /\ AfterLoss => \A i \in DOMAIN negatives : negatives[i] \in 1..(LossStep - 1)

\* C8, amended: the bank never holds more than memory_bank_size embeddings;
\* the negatives it supplies to the loss of a step are the bank as it was
\* before the step's keys were stored: key embeddings of earlier steps or
\* random vectors the bank was initialised with and that are not overwritten
\* yet, never keys of the step itself; the keys of the step are stored over
\* entries that are no newer than any entry that stays.
C8_MemoryBank ==
    /\ Len(bank) <= memory_bank_size
    /\ Len(negatives) <= memory_bank_size
    /\ AfterLoss =>
          /\ Len(bank) = memory_bank_size /\ Len(negatives) = memory_bank_size
          /\ \A i \in DOMAIN negatives : negatives[i] \in 0..(LossStep - 1)
          /\ \A i \in DOMAIN bank : bank[i] # negatives[i] => bank[i] = LossStep
          /\ \E i \in DOMAIN bank : bank[i] = LossStep
          /\ \A i, j \in DOMAIN bank :
                bank[i] = LossStep /\ bank[j] # LossStep => negatives[i] <= bank[j]

C8_Witness ==
    /\ AfterLoss
    /\ \A i \in DOMAIN negatives : negatives[i] >= 1
    /\ \E i \in DOMAIN bank : bank[i] = LossStep /\ negatives[i] >= 1

\* C9: the val_acc that on_validation_epoch_end logs is the number of correct
\* predictions over the number of samples of exactly the validation_step calls
\* made since the previous on_validation_epoch_end, and lies between 0 and 1.
C9_ValAccOfEpoch ==
    nb = "moco" /\ last_epoch # <<>> =>
        /\ val_acc = last_epoch
        /\ 0 <= val_acc[1] /\ val_acc[1] <= val_acc[2] /\ val_acc[2] > 0

C9_Witness ==
    /\ nb = "moco" /\ pc = "cls_validation_start" /\ current_epoch >= 1
    /\ val_acc = last_epoch
    /\ 0 < val_acc[1] /\ val_acc[1] < val_acc[2]

\* C10: once the classifier is built, the backbone stays as it was when MoCo
\* pre-training ended: its parameters and its buffers.
C10_BackboneFrozen ==
    nb = "moco" /\ pretrained # <<>> =>
        <<param["backbone"], num_batches_tracked["backbone"]>> = pretrained

\* the losses of the batches processed in epoch ep, in order
LossesOfEpoch(ep) == SelectSeq(losses, LAMBDA r : r.epoch = ep)

\* m is the arithmetic mean of the n losses of L, to the precision of the grid:
\* each of the n divisions by n rounds down by less than one unit
IsMeanOf(m, L, n) ==
    /\ Len(L) = n
    /\ n * m <= SumOf(L, "loss")
    /\ SumOf(L, "loss") < n * m + n * n

\* C11: the "Mean Loss" printed for an epoch is the arithmetic mean of the
\* losses of exactly the batches processed in that epoch, one line per epoch
\* run, and the number of batches processed in the epoch is len(dataloader).
C11_MeanLossOfEpoch ==
    nb = "simclr" =>
        /\ Len(printed) = (IF pc = "simclr_loop" THEN e ELSE Len(printed))
        /\ \A i \in DOMAIN printed :
              /\ printed[i].epoch = i - 1
              /\ IsMeanOf(printed[i].mean_loss, LossesOfEpoch(i - 1),
                          len_dataloader_train_simclr)

C11_Witness ==
    /\ nb = "simclr" /\ pc = "done"
    /\ Len(printed) = max_epochs_simclr /\ Len(printed) >= 2
    /\ printed[2].mean_loss < printed[1].mean_loss
    /\ dataset_len_simclr % batch_size_simclr # 0
    /\ \E i, j \in DOMAIN losses : losses[i].epoch = 1 /\ losses[j].epoch = 1
                                    /\ losses[i].loss # losses[j].loss

\* C12: the checkpoint holds the pre-trained backbone: the ResNet saved as
\* detmodel.backbone.bottom_up is the module the optimizer trained, with the
\* weights the last optimizer step of the loop left (all max_epochs *
\* len(dataloader) steps made, none after the save), and the projection head is
\* not among the saved modules.
C12_CheckpointHoldsTrainedBackbone ==
    nb = "simclr" /\ weights_dir # <<>> =>
        LET saved == weights_dir[Len(weights_dir)]
        IN  /\ detmodel.bottom_up = simclr_backbone[1]
            /\ saved.bottom_up = resnet
            /\ optimizer_steps = max_epochs_simclr * len_dataloader_train_simclr
            /\ optimizer_steps > 0
            /\ "backbone.bottom_up" \in saved.modules
            /\ \A m \in saved.modules : m \notin {"projection_head", "simclr_backbone"}

C12_Witness ==
    /\ nb = "simclr" /\ pc = "done" /\ weights_dir # <<>>
    /\ optimizer_steps >= 2
    /\ weights_dir[1].bottom_up \notin {0, Unit}
    /\ weights_dir[1].bottom_up # projection_head

\* the positions of the run inside the classifier's trainer.fit
ClsPositions == {"cls_validation_step", "cls_validation_start", "cls_training_step",
                 "cls_backward", "cls_optimizer_step"}

\* C13: the classifier is built and trained only once MoCo pre-training has run
\* all its max_epochs epochs (every batch of every epoch stepped by the
\* optimizer, which has trained the online backbone), and every forward pass of
\* the classifier takes its features from the online backbone, never from the
\* momentum backbone.
C13_ClassifierAfterPretraining ==
    /\ [](nb = "moco" /\ (pc \in ClsPositions \/ classifier_backbone # "") =>
            /\ classifier_backbone = "backbone"
            /\ features_from \in {"", "backbone"}
            /\ IsPrefix(<<"dataset", "dataloader", "model", "model",
                          "model_instance", "optimizer", "train_trainer">>, log))
    /\ [](nb = "moco" /\ pc \notin ClsPositions \cup {"done", "failed"} =>
            classifier_backbone = "" /\ features_from = "")
    /\ [][nb = "moco" /\ classifier_backbone = "" /\ classifier_backbone' # "" =>
            /\ pc = "moco_classifier"
            /\ current_epoch = max_epochs_moco
            /\ global_step = max_epochs_moco * len_dataloader_train_moco
            /\ grad["backbone"] # NoGrad]_vars

C13_Witness ==
    /\ nb = "moco" /\ pc = "done"
    /\ classifier_backbone = "backbone" /\ features_from = "backbone"
    /\ global_step >= 1 /\ val_acc # <<>>
    /\ param["backbone"] # param["backbone_momentum"]
====
